---- MODULE Spec2Model ----
(***************************************************************************)
(* Identity and session management of the Finwise server: the user store   *)
(* (userModel.ts), the local strategy handlers (authController.ts), the    *)
(* federated and bearer-token strategies (passport.ts) and the routes      *)
(* that gate the protected handlers (authRoutes.ts).                       *)
(*                                                                         *)
(* Every request is handled by one logical task.  A task in flight is a    *)
(* slot of `req`; each store round trip of a handler (an await on the user *)
(* model) is one step, so that the steps of concurrent requests interleave *)
(* the way they do on the event loop and on the store.  `last` is the      *)
(* response sent most recently.  Time is counted in minutes.               *)
(***************************************************************************)
EXTENDS Integers, Sequences, FiniteSets, TLC

\* ------------------------------------------------------------------ bounds
NProcs == 2
MaxReqs == 2
MaxUsers == 2

\* ------------------------------------------------------- program constants
CodeTTL == 10
TokenTTL == 1440
JWT_SECRET == "JWT_SECRET"

\* ------------------------------------------------------------------ inputs
\* emails of request bodies, and emails asserted by the identity provider
LocalEmails == {"a@x.com", "A@x.com"}
GoogleEmails == {"a@x.com", "b@x.com"}
Passwords == {<<"pw1">>, <<"pw2">>}
RegisterPasswords == {<<"pw1">>}
\* the name of a register body: given, or missing
Names == {"n", ""}
Codes == {"111111", "222222"}
GoogleIds == {"g1", "g2"}
\* the instants at which requests arrive
Times == {0, 5, 10, 1440}
Routes == {"profile", "ai"}
Procs == 1..NProcs

VARIABLES users, req, last, now, reqCount, issued, consumed, twice, nextIss, prev,
          profiles

vars == <<users, req, last, now, reqCount, issued, consumed, twice, nextIss, prev,
          profiles>>

NoPrev == [code |-> "", expires |-> 0]

\* --------------------------------------------------------------- the store
\* userSchema.email: trim, lowercase (applied to stored values and to
\* query filters alike).
Normalize(e) == IF e = "A@x.com" THEN "a@x.com" ELSE e

\* userSchema.pre("save"): a password is hashed only when it was modified
\* and is present.
Hash(pw) == <<"bcrypt">> \o pw

PreSave(pw, modified) == IF (~modified) \/ pw = << >> THEN pw ELSE Hash(pw)

\* bcrypt.compare(plain, hash)
BcryptCompare(pw, hash) == hash = <<"bcrypt">> \o pw

Ids(us) == 1..Len(us)

First(S) == IF S = {} THEN 0 ELSE CHOOSE i \in S : \A j \in S : i <= j

\* The store without its unique index on email
EmailConflictOff(us, email, self) == FALSE

\* unique index on email
EmailConflict(us, email, self) ==
  \E i \in Ids(us) : i # self /\ us[i].email = email

\* The store without its unique index on googleId
GoogleIdConflictOff(us, gid, self) == FALSE

\* unique sparse index on googleId
GoogleIdConflict(us, gid, self) ==
  gid # "" /\ \E i \in Ids(us) : i # self /\ us[i].googleId = gid

\* UserModel.findOne({ email })
FindByEmail(us, email) ==
  First({i \in Ids(us) : us[i].email = Normalize(email)})

\* A lookup by googleId that never finds an Account
FindByGoogleIdNever(us, gid) == 0

\* UserModel.findOne({ googleId })
FindByGoogleId(us, gid) ==
  First({i \in Ids(us) : us[i].googleId = gid})

\* A lookup of verifyEmail that does not look at the expiry
FindForVerifyNoExpiry(us, email, otp, t) ==
  First({i \in Ids(us) : /\ us[i].email = Normalize(email)
                         /\ us[i].emailVerificationToken = otp})

\* UserModel.findOne({ email, emailVerificationToken: otp,
\*                     emailVerificationTokenExpires: { $gt: Date.now() } })
FindForVerify(us, email, otp, t) ==
  First({i \in Ids(us) : /\ us[i].email = Normalize(email)
                         /\ us[i].emailVerificationToken = otp
                         /\ us[i].emailVerificationTokenExpires > t})

\* A lookup of resendVerification by email alone
FindForResendByEmail(us, email) ==
  First({i \in Ids(us) : us[i].email = Normalize(email)})

\* UserModel.findOne({ email, authProvider: "email", isEmailVerified: false })
FindForResend(us, email) ==
  First({i \in Ids(us) : /\ us[i].email = Normalize(email)
                         /\ us[i].authProvider = "email"
                         /\ ~us[i].isEmailVerified})

\* A lookup of login by email alone
FindForLoginAnyProvider(us, email) ==
  First({i \in Ids(us) : us[i].email = Normalize(email)})

\* UserModel.findOne({ email, authProvider: "email" }).select("+password")
FindForLogin(us, email) ==
  First({i \in Ids(us) : /\ us[i].email = Normalize(email)
                         /\ us[i].authProvider = "email"})

\* A create whose isEmailVerified does not default to false
NewLocalUserVerified(email, pw) ==
  [email |-> Normalize(email), password |-> PreSave(pw, TRUE), googleId |-> "",
   authProvider |-> "email", isEmailVerified |-> TRUE,
   emailVerificationToken |-> "", emailVerificationTokenExpires |-> 0,
   iss |-> 0, regPw |-> pw]

\* UserModel.create({ name, email, password, phoneNumber, authProvider: "email" })
NewLocalUser(email, pw) ==
  [email |-> Normalize(email), password |-> PreSave(pw, TRUE), googleId |-> "",
   authProvider |-> "email", isEmailVerified |-> FALSE,
   emailVerificationToken |-> "", emailVerificationTokenExpires |-> 0,
   iss |-> 0, regPw |-> pw]

\* UserModel.create({ googleId, name, email, photoURL, authProvider: "google",
\*                    isEmailVerified: true })
NewGoogleUser(sub, email) ==
  [email |-> Normalize(email), password |-> << >>, googleId |-> sub,
   authProvider |-> "google", isEmailVerified |-> TRUE,
   emailVerificationToken |-> "", emailVerificationTokenExpires |-> 0,
   iss |-> 0, regPw |-> << >>]

\* A save that writes the whole document as register and resend hold it,
\* isEmailVerified = false included
CodeUpdateWholeDocument(acc, code, expires, iss) ==
  [acc EXCEPT !.emailVerificationToken = code,
              !.emailVerificationTokenExpires = expires,
              !.iss = iss,
              !.isEmailVerified = FALSE]

\* A save that keeps a code that is already stored
CodeUpdateKeepOld(acc, code, expires, iss) ==
  IF acc.emailVerificationToken # "" THEN acc
  ELSE [acc EXCEPT !.emailVerificationToken = code,
                   !.emailVerificationTokenExpires = expires,
                   !.iss = iss]

\* save() of the modified paths emailVerificationToken and
\* emailVerificationTokenExpires (register, resendVerification)
CodeUpdate(acc, code, expires, iss) ==
  [acc EXCEPT !.emailVerificationToken = code,
              !.emailVerificationTokenExpires = expires,
              !.iss = iss]

\* A save of verifyEmail that unsets the code fields only
VerifyUpdateCodeOnly(acc) ==
  [acc EXCEPT !.emailVerificationToken = "",
              !.emailVerificationTokenExpires = 0,
              !.iss = 0]

\* save() of verifyEmail: isEmailVerified = true, both code fields unset
VerifyUpdate(acc) ==
  [acc EXCEPT !.isEmailVerified = TRUE,
              !.emailVerificationToken = "",
              !.emailVerificationTokenExpires = 0,
              !.iss = 0]

\* A link that hashes the stored password again
LinkUpdateRehash(acc, sub) ==
  [acc EXCEPT !.googleId = sub,
              !.isEmailVerified = TRUE,
              !.password = PreSave(acc.password, TRUE)]

\* A link that leaves isEmailVerified as it was
LinkUpdateNoVerify(acc, sub) ==
  [acc EXCEPT !.googleId = sub,
              !.password = PreSave(acc.password, FALSE)]

\* save() of the link branch: googleId, photoURL, isEmailVerified = true.
\* The document was loaded without its password (select: false), so the
\* pre-save hook sees the password unmodified.
LinkUpdate(acc, sub) ==
  [acc EXCEPT !.googleId = sub,
              !.isEmailVerified = TRUE,
              !.password = PreSave(acc.password, FALSE)]

\* ----------------------------------------------------------------- tokens
NoCookie == [kind |-> "none", id |-> 0, secret |-> "", exp |-> 0]
Malformed == [kind |-> "malformed", id |-> 0, secret |-> "", exp |-> 0]

\* res.clearCookie("jwt")
ClearedCookie == [kind |-> "cleared", id |-> 0, secret |-> "", exp |-> 0]

\* jwt.sign({ id }, JWT_SECRET, { expiresIn: "1d" })
Sign(id, secret, t) == [kind |-> "jwt", id |-> id, secret |-> secret, exp |-> t + TokenTTL]

\* An extractor that falls back to the Authorization header
JwtFromRequestOrHeader(cookie, header) ==
  IF cookie.kind = "none" THEN header ELSE cookie

\* jwtFromRequest: req.cookies.jwt, or null; the headers are not read
JwtFromRequest(cookie, header) == cookie

\* A token check that ignores the expiry
JwtVerifyNoExpiry(cookie, secret, t) ==
  /\ cookie.kind = "jwt"
  /\ cookie.secret = secret

\* A token check that still accepts a token at the instant of its expiry
JwtVerifyInclusive(cookie, secret, t) ==
  /\ cookie.kind = "jwt"
  /\ cookie.secret = secret
  /\ t <= cookie.exp

\* jwtFromRequest + the signature and expiry check of the JWT strategy
JwtVerify(cookie, secret, t) ==
  /\ cookie.kind = "jwt"
  /\ cookie.secret = secret
  /\ t < cookie.exp

\* jwtPayload.id, as the strategy hands it to its callback; 0 when the token
\* check fails
JwtPayloadId(cookie, secret, t) ==
  IF JwtVerify(cookie, secret, t) THEN cookie.id ELSE 0

\* JwtStrategy: token check, then UserModel.findById(jwtPayload.id)
Authenticate(us, cookie, t) ==
  IF JwtVerify(cookie, JWT_SECRET, t) /\ cookie.id \in Ids(us) THEN cookie.id ELSE 0

\* The cookies a client can present: none, garbage, any token the server
\* issued, the same token signed with another secret, and a correctly
\* signed token whose id is not in the store.
Cookies ==
  {NoCookie, Malformed} \cup issued
    \cup {[t EXCEPT !.secret = "other"] : t \in issued}
    \cup {[t EXCEPT !.id = Len(users) + 1] : t \in issued}

\* The bearer tokens a client can put in an Authorization header
Headers == {NoCookie} \cup issued

\* --------------------------------------------------------------- requests
\* A task slot: the request, the position of its handler and the handler's
\* local document.  specOK, superseded and expired record what the store
\* looked like when the handler read it.
Idle ==
  [op |-> "idle", pc |-> "idle", email |-> "", otp |-> "", password |-> << >>,
   name |-> "", sub |-> "", id |-> 0, code |-> "", expires |-> 0, iss |-> 0,
   specOK |-> FALSE, superseded |-> FALSE, expired |-> FALSE]

\* The paths of userSchema, and those declared select: false
AllPaths ==
  {"id", "email", "name", "password", "googleId", "photoURL", "phoneNumber",
   "authProvider", "isEmailVerified", "emailVerificationToken",
   "emailVerificationTokenExpires"}

HiddenPaths == {"password", "emailVerificationToken", "emailVerificationTokenExpires"}

\* The paths of a document that a query loads: all but the select: false
\* ones, plus those asked for with select("+path")
Selected(extra) == (AllPaths \ HiddenPaths) \cup extra

\* A body that serializes the whole loaded document
UserBodyWhole(doc) == doc

\* { id, name, email, photoURL } of verifyEmail, login and getProfile
UserBody(doc) == {"id", "name", "email", "photoURL"} \cap doc

\* { message } of every other JSON answer
MessageBody == {"message"}

\* A response, with the request it answers: the Account it is about, the
\* cookie the request carried, the token the response sets, whether the
\* protected handler ran and whether a submitted password matched the hash,
\* the code of the mail that was dispatched before it, the target of its
\* redirect and the keys of its body.
NoResponse ==
  [op |-> "none", email |-> "", sub |-> "", id |-> 0, status |-> 0, err |-> "",
   token |-> NoCookie, cookie |-> NoCookie, header |-> NoCookie,
   handlerRan |-> FALSE,
   specOK |-> FALSE, superseded |-> FALSE, expired |-> FALSE,
   passwordMatched |-> FALSE,
   mailed |-> "", location |-> "", body |-> {}, touched |-> 0]

Respond(r, status, err) ==
  [NoResponse EXCEPT !.op = r.op, !.email = Normalize(r.email), !.sub = r.sub,
                     !.id = r.id, !.specOK = r.specOK,
                     !.superseded = r.superseded, !.expired = r.expired,
                     !.status = status, !.err = err, !.body = MessageBody]

\* A new request takes the first free task slot
Free(p) ==
  /\ reqCount < MaxReqs
  /\ req[p].pc = "idle"
  /\ \A q \in Procs : q < p => req[q].pc # "idle"

\* The Account that register("a@x.com", "pw1") leaves in the store when it
\* ran at time 0 and drew the code 111111
PendingAccount ==
  CodeUpdate(NewLocalUser("a@x.com", <<"pw1">>), "111111", CodeTTL, 1)

\* The store outlives the process: when the server starts it is empty or
\* holds what an earlier registration left in it.
InitStores == {<< >>, <<PendingAccount>>}

Init ==
  /\ users \in InitStores
  /\ req = [p \in Procs |-> Idle]
  /\ last = NoResponse
  /\ now = 0
  /\ reqCount = 0
  /\ issued = {}
  /\ consumed = {}
  /\ twice = {}
  /\ nextIss = Len(users) + 1
  /\ prev = [i \in 1..Len(users) |-> NoPrev]
  /\ profiles = {}

\* Time passes between requests: no handler is in flight across a jump of
\* minutes.
Tick(t) ==
  /\ t > now
  /\ \A q \in Procs : req[q].pc = "idle"
  /\ now' = t
  /\ UNCHANGED <<users, req, last, reqCount, issued, consumed, twice, nextIss, prev, profiles>>

\* generateAndSetToken(res, user._id.toString())
GenerateAndSetToken(id) == Sign(id, JWT_SECRET, now)

\* ---------------------------------------------------------------- register
\* register, up to the answer of findOne({ email })
Register(p, email, pw, name) ==
  /\ Free(p)
  /\ reqCount' = reqCount + 1
  /\ LET r == [Idle EXCEPT !.op = "register", !.email = email, !.password = pw,
                           !.name = name,
                           !.specOK = (name # "" /\ FindByEmail(users, email) = 0)]
     IN IF FindByEmail(users, email) # 0
        THEN /\ last' = Respond(r, 400, "")
             /\ UNCHANGED req
        ELSE /\ req' = [req EXCEPT ![p] = [r EXCEPT !.pc = "R_create"]]
             /\ UNCHANGED last
  /\ UNCHANGED <<users, now, issued, consumed, twice, nextIss, prev, profiles>>

\* userSchema: name is required (email is given in every register body of
\* the model)
Validates(name) == name # ""

\* UserModel.create (validation, then the insert), then the code and its
\* expiry are set on the document
RegisterCreate(p, code) ==
  /\ req[p].pc = "R_create"
  /\ LET r == req[p]
         doc == NewLocalUser(r.email, r.password)
     IN IF ~Validates(r.name)
        THEN /\ last' = Respond(r, 500, "ValidationError")
             /\ req' = [req EXCEPT ![p] = Idle]
             /\ UNCHANGED <<users, nextIss, prev>>
        ELSE IF EmailConflict(users, doc.email, 0)
        THEN /\ last' = Respond(r, 500, "DuplicateKey")
             /\ req' = [req EXCEPT ![p] = Idle]
             /\ UNCHANGED <<users, nextIss, prev>>
        ELSE /\ Len(users) < MaxUsers
             /\ users' = Append(users, doc)
             /\ prev' = Append(prev, NoPrev)
             /\ nextIss' = nextIss + 1
             /\ req' = [req EXCEPT ![p] = [r EXCEPT !.pc = "R_save", !.id = Len(users) + 1,
                                                    !.code = code, !.iss = nextIss,
                                                    !.expires = now + CodeTTL]]
             /\ UNCHANGED last
  /\ UNCHANGED <<now, reqCount, issued, consumed, twice, profiles>>

\* A register that sends the mail before it saves the code
RegisterSaveMailFirst(p, mailOk) ==
  /\ req[p].pc = "R_save"
  /\ LET r == req[p]
     IN /\ users' = IF mailOk
                    THEN [users EXCEPT ![r.id] = CodeUpdate(@, r.code, r.expires, r.iss)]
                    ELSE users
        /\ last' = IF mailOk THEN [Respond(r, 201, "") EXCEPT !.mailed = r.code]
                             ELSE Respond(r, 500, "MailFailure")
        /\ req' = [req EXCEPT ![p] = Idle]
  /\ UNCHANGED <<now, reqCount, issued, consumed, twice, nextIss, prev, profiles>>

\* newUser.save(), then sendEmail and the response
RegisterSave(p, mailOk) ==
  /\ req[p].pc = "R_save"
  /\ LET r == req[p]
     IN /\ users' = [users EXCEPT ![r.id] = CodeUpdate(@, r.code, r.expires, r.iss)]
        /\ last' = IF mailOk THEN [Respond(r, 201, "") EXCEPT !.mailed = r.code]
                             ELSE Respond(r, 500, "MailFailure")
        /\ req' = [req EXCEPT ![p] = Idle]
  /\ UNCHANGED <<now, reqCount, issued, consumed, twice, nextIss, prev, profiles>>

\* ------------------------------------------------------------- verifyEmail
\* What section 8 requires of a successful verify
VerifyAllowed(us, email, otp, t) ==
  \E i \in Ids(us) : /\ us[i].email = Normalize(email)
                     /\ ~us[i].isEmailVerified
                     /\ us[i].emailVerificationToken = otp
                     /\ t < us[i].emailVerificationTokenExpires

\* A verifyEmail that tells an expired code from a wrong one
VerifyEmailTellsExpired(p, email, otp) ==
  /\ Free(p)
  /\ reqCount' = reqCount + 1
  /\ LET i == FindForVerify(users, email, otp, now)
         a == FindByEmail(users, email)
         r == [Idle EXCEPT !.op = "verify", !.email = email, !.otp = otp,
                           !.specOK = VerifyAllowed(users, email, otp, now),
                           !.superseded = (a # 0 /\ prev[a].code = otp
                                                 /\ now < prev[a].expires),
                           !.expired = (a # 0 /\ users[a].emailVerificationToken = otp
                                              /\ users[a].emailVerificationTokenExpires <= now)]
     IN IF i = 0
        THEN /\ last' = IF r.expired THEN Respond(r, 400, "Expired OTP.")
                                     ELSE Respond(r, 400, "Invalid or expired OTP.")
             /\ UNCHANGED req
        ELSE /\ req' = [req EXCEPT ![p] = [r EXCEPT !.pc = "V_save", !.id = i,
                                                    !.iss = users[i].iss]]
             /\ UNCHANGED last
  /\ UNCHANGED <<users, now, issued, consumed, twice, nextIss, prev, profiles>>

\* verifyEmail, up to the answer of findOne
VerifyEmail(p, email, otp) ==
  /\ Free(p)
  /\ reqCount' = reqCount + 1
  /\ LET i == FindForVerify(users, email, otp, now)
         a == FindByEmail(users, email)
         r == [Idle EXCEPT !.op = "verify", !.email = email, !.otp = otp,
                           !.specOK = VerifyAllowed(users, email, otp, now),
                           !.superseded = (a # 0 /\ prev[a].code = otp
                                                 /\ now < prev[a].expires),
                           !.expired = (a # 0 /\ users[a].emailVerificationToken = otp
                                              /\ users[a].emailVerificationTokenExpires <= now)]
     IN IF i = 0
        THEN /\ last' = Respond(r, 400, "Invalid or expired OTP.")
             /\ UNCHANGED req
        ELSE /\ req' = [req EXCEPT ![p] = [r EXCEPT !.pc = "V_save", !.id = i,
                                                    !.iss = users[i].iss]]
             /\ UNCHANGED last
  /\ UNCHANGED <<users, now, issued, consumed, twice, nextIss, prev, profiles>>

\* user.save(), generateAndSetToken, 200
VerifySave(p) ==
  /\ req[p].pc = "V_save"
  /\ LET r == req[p]
         tok == GenerateAndSetToken(r.id)
     IN /\ users' = [users EXCEPT ![r.id] = VerifyUpdate(@)]
        /\ issued' = issued \cup {tok}
        /\ consumed' = consumed \cup {r.iss}
        /\ twice' = IF r.iss \in consumed THEN twice \cup {r.iss} ELSE twice
        /\ last' = [Respond(r, 200, "") EXCEPT !.token = tok,
                                                !.body = UserBody(Selected({}))]
        /\ req' = [req EXCEPT ![p] = Idle]
  /\ UNCHANGED <<now, reqCount, nextIss, prev, profiles>>

\* ------------------------------------------------------ resendVerification
\* What section 4.3 requires of a resend: a local, unverified Account
ResendAllowed(us, email) ==
  \E i \in Ids(us) : /\ us[i].email = Normalize(email)
                     /\ us[i].authProvider = "email"
                     /\ ~us[i].isEmailVerified

\* resendVerification, up to the answer of findOne; the new code and its
\* expiry are set on the document
ResendVerification(p, email, code) ==
  /\ Free(p)
  /\ reqCount' = reqCount + 1
  /\ LET i == FindForResend(users, email)
         r == [Idle EXCEPT !.op = "resend", !.email = email,
                           !.specOK = ResendAllowed(users, email)]
     IN IF i = 0
        THEN /\ last' = Respond(r, 400, "")
             /\ UNCHANGED <<req, nextIss>>
        ELSE /\ req' = [req EXCEPT ![p] = [r EXCEPT !.pc = "S_save", !.id = i,
                                                    !.code = code, !.iss = nextIss,
                                                    !.expires = now + CodeTTL]]
             /\ nextIss' = nextIss + 1
             /\ UNCHANGED last
  /\ UNCHANGED <<users, now, issued, consumed, twice, prev, profiles>>

\* user.save(), then sendEmail and the response
ResendSave(p, mailOk) ==
  /\ req[p].pc = "S_save"
  /\ LET r == req[p]
         old == users[r.id]
     IN /\ users' = [users EXCEPT ![r.id] = CodeUpdate(@, r.code, r.expires, r.iss)]
        /\ prev' = IF old.emailVerificationToken \notin {"", r.code}
                   THEN [prev EXCEPT ![r.id] =
                           [code |-> old.emailVerificationToken,
                            expires |-> old.emailVerificationTokenExpires]]
                   ELSE prev
        /\ last' = IF mailOk THEN [Respond(r, 200, "") EXCEPT !.mailed = r.code]
                             ELSE Respond(r, 500, "MailFailure")
        /\ req' = [req EXCEPT ![p] = Idle]
  /\ UNCHANGED <<now, reqCount, issued, consumed, twice, nextIss, profiles>>

\* ------------------------------------------------------------------- login
\* A login that does not look at isEmailVerified
LoginStatusNoVerifiedCheck(us, email, pw) ==
  LET i == FindForLogin(us, email)
  IN IF i = 0 \/ us[i].password = << >> THEN 401
     ELSE IF ~BcryptCompare(pw, us[i].password) THEN 401
     ELSE 200

\* The status login answers with
LoginStatus(us, email, pw) ==
  LET i == FindForLogin(us, email)
  IN IF i = 0 \/ us[i].password = << >> THEN 401
     ELSE IF ~us[i].isEmailVerified THEN 401
     ELSE IF ~BcryptCompare(pw, us[i].password) THEN 401
     ELSE 200

\* The message login answers with
LoginMessage(us, email, pw) ==
  LET i == FindForLogin(us, email)
  IN IF i = 0 \/ us[i].password = << >> THEN "Invalid credentials."
     ELSE IF ~us[i].isEmailVerified THEN "Please verify your email first."
     ELSE IF ~BcryptCompare(pw, us[i].password) THEN "Invalid credentials."
     ELSE ""

Login(p, email, pw) ==
  /\ Free(p)
  /\ reqCount' = reqCount + 1
  /\ LET i == FindForLogin(users, email)
         st == LoginStatus(users, email, pw)
         r == [Idle EXCEPT !.op = "login", !.email = email, !.id = i, !.password = pw,
                           !.specOK = (i # 0 /\ users[i].isEmailVerified)]
         tok == GenerateAndSetToken(i)
         ok == i # 0 /\ BcryptCompare(pw, users[i].password)
     IN IF st = 200
        THEN /\ last' = [Respond(r, 200, "") EXCEPT !.token = tok, !.passwordMatched = ok,
                                                     !.body = UserBody(Selected({"password"}))]
             /\ issued' = issued \cup {tok}
        ELSE /\ last' = [Respond(r, st, LoginMessage(users, email, pw))
                           EXCEPT !.passwordMatched = ok]
             /\ UNCHANGED issued
  /\ UNCHANGED <<users, req, now, consumed, twice, nextIss, prev, profiles>>

\* --------------------------------------------------------- google callback
\* getGoogleCallback: token, cookie, redirect to the dashboard
GoogleDone(r, id) ==
  [Respond([r EXCEPT !.id = id], 302, "") EXCEPT !.token = GenerateAndSetToken(id),
                                                 !.location = "dashboard",
                                                 !.body = {}]

\* done(error, false): the strategy reports the error of the store, the
\* middleware passes it to next(err) and the request ends as a 500 of the
\* default error handler (failureRedirect is for done(null, false) only).
GoogleError(r) == [Respond(r, 500, "DuplicateKey") EXCEPT !.body = {}]

\* The verify callback of the Google strategy, up to the answer of
\* findOne({ googleId })
GoogleCallback(p, sub, email) ==
  /\ Free(p)
  /\ reqCount' = reqCount + 1
  /\ LET i == FindByGoogleId(users, sub)
         r == [Idle EXCEPT !.op = "google", !.email = email, !.sub = sub]
     IN IF i # 0
        THEN /\ last' = GoogleDone(r, i)
             /\ issued' = issued \cup {GenerateAndSetToken(i)}
             /\ UNCHANGED req
        ELSE /\ req' = [req EXCEPT ![p] = [r EXCEPT !.pc = "G_email"]]
             /\ UNCHANGED <<issued, last>>
  /\ UNCHANGED <<users, now, consumed, twice, nextIss, prev, profiles>>

\* findOne({ email }) of the verify callback
GoogleFindEmail(p) ==
  /\ req[p].pc = "G_email"
  /\ LET r == req[p]
         i == FindByEmail(users, r.email)
     IN req' = [req EXCEPT ![p] = IF i # 0 THEN [r EXCEPT !.pc = "G_save", !.id = i]
                                           ELSE [r EXCEPT !.pc = "G_create"]]
  /\ UNCHANGED <<users, last, now, reqCount, issued, consumed, twice, nextIss, prev, profiles>>

\* The link branch: user.save(), done(null, user)
GoogleLink(p) ==
  /\ req[p].pc = "G_save"
  /\ LET r == req[p]
     IN IF GoogleIdConflict(users, r.sub, r.id)
        THEN /\ last' = GoogleError(r)
             /\ UNCHANGED <<users, issued>>
        ELSE /\ users' = [users EXCEPT ![r.id] = LinkUpdate(@, r.sub)]
             /\ last' = GoogleDone(r, r.id)
             /\ issued' = issued \cup {GenerateAndSetToken(r.id)}
  /\ req' = [req EXCEPT ![p] = Idle]
  /\ UNCHANGED <<now, reqCount, consumed, twice, nextIss, prev, profiles>>

\* The create branch: UserModel.create, done(null, user)
GoogleCreate(p) ==
  /\ req[p].pc = "G_create"
  /\ LET r == req[p]
         doc == NewGoogleUser(r.sub, r.email)
     IN IF EmailConflict(users, doc.email, 0) \/ GoogleIdConflict(users, doc.googleId, 0)
        THEN /\ last' = GoogleError(r)
             /\ UNCHANGED <<users, issued, prev>>
        ELSE /\ Len(users) < MaxUsers
             /\ users' = Append(users, doc)
             /\ prev' = Append(prev, NoPrev)
             /\ last' = GoogleDone(r, Len(users) + 1)
             /\ issued' = issued \cup {GenerateAndSetToken(Len(users) + 1)}
  /\ req' = [req EXCEPT ![p] = Idle]
  /\ UNCHANGED <<now, reqCount, consumed, twice, nextIss, profiles>>

\* ------------------------------------------------------ protected handlers
\* What section 4.5 requires before a protected handler may run
Authorized(us, cookie, t) ==
  /\ cookie.kind = "jwt"
  /\ cookie.secret = JWT_SECRET
  /\ t < cookie.exp
  /\ \E i \in Ids(us) : i = cookie.id

\* passport.authenticate("jwt", { session: false }) in front of a protected
\* route: getProfile, or a handler of the AI router
Protected(p, route, cookie, header) ==
  /\ Free(p)
  /\ reqCount' = reqCount + 1
  /\ LET i == Authenticate(users, JwtFromRequest(cookie, header), now)
         r == [Idle EXCEPT !.op = route, !.id = i,
                           !.specOK = Authorized(users, cookie, now)]
     IN last' = IF i # 0
                THEN [Respond(r, 200, "") EXCEPT
                        !.handlerRan = TRUE, !.cookie = cookie, !.header = header,
                        !.body = IF route = "profile" THEN UserBody(Selected({})) ELSE {}]
                ELSE [Respond(r, 401, "Unauthorized") EXCEPT
                        !.cookie = cookie, !.header = header, !.body = {}]
  /\ UNCHANGED <<users, req, now, issued, consumed, twice, nextIss, prev, profiles>>

\* ------------------------------------------------------------ AI endpoints
\* The userId of a request path, and of a request body (0: the body has
\* none)
PathIds == 1..MaxUsers
BodyIds == 0..MaxUsers

\* FinancialProfileModel.findOne({ userId })
FindProfile(ps, id) == {pr \in ps : pr.userId = id}

\* unique index on financialProfileSchema.userId
ProfileConflict(ps, id) == FindProfile(ps, id) # {}

\* The answer of an AI handler that ran for the Account id and read or
\* wrote records of the user `touched`
AiRespond(op, id, cookie, status, touched) ==
  [Respond([Idle EXCEPT !.op = op, !.id = id], status, "")
     EXCEPT !.cookie = cookie, !.handlerRan = TRUE, !.touched = touched,
            !.body = IF status = 200 THEN {"profile"} ELSE MessageBody]

\* getFinancialProfile, up to the answer of findOne({ userId: user._id });
\* the userId of the path is not read
GetFinancialProfile(p, cookie, pathId) ==
  /\ Free(p)
  /\ Authenticate(users, cookie, now) # 0
  /\ reqCount' = reqCount + 1
  /\ LET i == Authenticate(users, cookie, now)
     IN IF FindProfile(profiles, i) # {}
        THEN /\ last' = AiRespond("getFinancialProfile", i, cookie, 200, i)
             /\ UNCHANGED req
        ELSE /\ req' = [req EXCEPT ![p] = [Idle EXCEPT !.op = "getFinancialProfile",
                                                       !.pc = "P_create", !.id = i]]
             /\ UNCHANGED last
  /\ UNCHANGED <<users, now, issued, consumed, twice, nextIss, prev, profiles>>

\* FinancialProfileModel.create({ userId: user._id, ... }) of
\* getFinancialProfile
CreateFinancialProfile(p) ==
  /\ req[p].pc = "P_create"
  /\ LET i == req[p].id
     IN IF ProfileConflict(profiles, i)
        THEN /\ last' = AiRespond("getFinancialProfile", i, NoCookie, 500, 0)
             /\ UNCHANGED profiles
        ELSE /\ profiles' = profiles \cup {[userId |-> i, creator |-> i]}
             /\ last' = AiRespond("getFinancialProfile", i, NoCookie, 200, i)
  /\ req' = [req EXCEPT ![p] = Idle]
  /\ UNCHANGED <<users, now, reqCount, issued, consumed, twice, nextIss, prev>>

\* The userId that findOneAndUpdate({ userId: user._id }, req.body) leaves
\* on the document: req.body is the update, so a userId in the body is set
UpdatedUserId(i, bodyId) == IF bodyId = 0 THEN i ELSE bodyId

\* updateFinancialProfile: findOneAndUpdate({ userId: user._id }, req.body,
\* { new: true, upsert: true }); the userId of the path is not read
UpdateFinancialProfile(p, cookie, pathId, bodyId) ==
  /\ Free(p)
  /\ Authenticate(users, cookie, now) # 0
  /\ reqCount' = reqCount + 1
  /\ LET i == Authenticate(users, cookie, now)
         old == FindProfile(profiles, i)
         uid == UpdatedUserId(i, bodyId)
         creator == IF old = {} THEN i ELSE (CHOOSE pr \in old : TRUE).creator
     IN IF ProfileConflict(profiles \ old, uid)
        THEN /\ last' = AiRespond("updateFinancialProfile", i, cookie, 500, 0)
             /\ UNCHANGED profiles
        ELSE /\ profiles' = (profiles \ old) \cup {[userId |-> uid, creator |-> creator]}
             /\ last' = AiRespond("updateFinancialProfile", i, cookie, 200, uid)
  /\ UNCHANGED <<users, req, now, issued, consumed, twice, nextIss, prev>>

\* getAgentOutputs: 403 unless the userId of the path is user._id, then
\* AgentOutputModel.find({ userId })
GetAgentOutputs(p, cookie, pathId) ==
  /\ Free(p)
  /\ Authenticate(users, cookie, now) # 0
  /\ reqCount' = reqCount + 1
  /\ LET i == Authenticate(users, cookie, now)
     IN last' = IF i # pathId
                THEN AiRespond("getAgentOutputs", i, cookie, 403, 0)
                ELSE AiRespond("getAgentOutputs", i, cookie, 200, pathId)
  /\ UNCHANGED <<users, req, now, issued, consumed, twice, nextIss, prev, profiles>>

\* ------------------------------------------------------------------ logout
\* A logout that also resets the Account of the presented token
LogoutTouchesStore(p, cookie) ==
  /\ Free(p)
  /\ reqCount' = reqCount + 1
  /\ last' = [Respond([Idle EXCEPT !.op = "logout"], 200, "")
                EXCEPT !.cookie = cookie, !.token = ClearedCookie]
  /\ users' = [i \in Ids(users) |->
                IF i = cookie.id THEN [users[i] EXCEPT !.isEmailVerified = FALSE]
                ELSE users[i]]
  /\ UNCHANGED <<req, now, issued, consumed, twice, nextIss, prev, profiles>>

\* logout: clearCookie("jwt"), 200; the route is not behind the token check
Logout(p, cookie) ==
  /\ Free(p)
  /\ reqCount' = reqCount + 1
  /\ last' = [Respond([Idle EXCEPT !.op = "logout"], 200, "")
                EXCEPT !.cookie = cookie, !.token = ClearedCookie]
  /\ UNCHANGED <<users, req, now, issued, consumed, twice, nextIss, prev, profiles>>

Next ==
  \/ \E t \in Times : Tick(t)
  \/ \E p \in Procs, e \in LocalEmails, pw \in RegisterPasswords, n \in Names :
       Register(p, e, pw, n)
  \/ \E p \in Procs, c \in Codes : RegisterCreate(p, c)
  \/ \E p \in Procs, ok \in BOOLEAN : RegisterSave(p, ok)
  \/ \E p \in Procs, e \in LocalEmails, c \in Codes : VerifyEmail(p, e, c)
  \/ \E p \in Procs : VerifySave(p)
  \/ \E p \in Procs, e \in LocalEmails, c \in Codes : ResendVerification(p, e, c)
  \/ \E p \in Procs, ok \in BOOLEAN : ResendSave(p, ok)
  \/ \E p \in Procs, e \in LocalEmails, pw \in Passwords : Login(p, e, pw)
  \/ \E p \in Procs, g \in GoogleIds, e \in GoogleEmails : GoogleCallback(p, g, e)
  \/ \E p \in Procs : GoogleFindEmail(p)
  \/ \E p \in Procs : GoogleLink(p)
  \/ \E p \in Procs : GoogleCreate(p)
  \/ \E p \in Procs, rt \in Routes, c \in Cookies, h \in Headers : Protected(p, rt, c, h)
  \/ \E p \in Procs, c \in Cookies : Logout(p, c)
  \/ \E p \in Procs, c \in issued, u \in PathIds : GetFinancialProfile(p, c, u)
  \/ \E p \in Procs : CreateFinancialProfile(p)
  \/ \E p \in Procs, c \in issued, u \in PathIds, b \in BodyIds :
       UpdateFinancialProfile(p, c, u, b)
  \/ \E p \in Procs, c \in issued, u \in PathIds : GetAgentOutputs(p, c, u)

Spec == Init /\ [][Next]_vars

\* ------------------------------------------------------------------ claims
AccountsWith(us, email) == {i \in Ids(us) : us[i].email = Normalize(email)}

\* C1: a register request that found its email unused and then lost the
\* race for it to a concurrent register is answered 400 (Conflict), the
\* winner 201, and exactly one Account has that email afterwards (requests
\* that failed validation or whose mail dispatch failed are left aside).
C1_ConcurrentRegisterOneConflict ==
  (last.op = "register" /\ last.err \notin {"MailFailure", "ValidationError"})
  => /\ last.status \in {201, 400}
     /\ Cardinality(AccountsWith(users, last.email)) = 1

\* C2: in every reachable state at most one Account has any given email.
C2_OneAccountPerEmail ==
  \A i, j \in Ids(users) : users[i].email = users[j].email => i = j

\* C2 witness: a register lost the race for an email to another create,
\* and one Account has that email.
C2_Witness ==
  /\ last.op = "register"
  /\ last.err = "DuplicateKey"
  /\ Cardinality(AccountsWith(users, last.email)) = 1

\* C3: verify succeeds if and only if an Account with that email exists, is
\* unverified, stores exactly the submitted code and now < expiresAt; in
\* every other case it answers 400 and issues no token.
C3_VerifySucceedsIffAllowed ==
  /\ \A p \in Procs : req[p].pc = "V_save" => req[p].specOK
  /\ last.op = "verify" =>
       /\ last.status = 200 <=> last.specOK
       /\ last.status # 200 => (last.status = 400 /\ last.token = NoCookie)

\* C4: login never answers 200 and never sets the session cookie for an
\* Account whose isEmailVerified is false, whatever the password.
C4_NoLoginWhileUnverified ==
  (last.op = "login" /\ ~last.specOK)
  => (last.status # 200 /\ last.token = NoCookie)

\* C4 witness: a login with the right password on an unverified Account
\* was answered 401 without a token.
C4_Witness ==
  /\ last.op = "login"
  /\ last.id # 0
  /\ ~last.specOK
  /\ last.passwordMatched
  /\ last.status = 401 /\ last.token = NoCookie

\* C5: once a successful resend has saved its code, no other code satisfies
\* the lookup of verify for that Account, the earlier code included, even
\* though it has not expired: only the newly generated code can verify.
C5_ResendSupersedesCode ==
  [][\A p \in Procs :
       (req[p].pc = "S_save" /\ req'[p].pc = "idle" /\ last'.status = 200)
       => \A otp \in Codes :
            otp # req[p].code => FindForVerify(users', req[p].email, otp, now') = 0]_vars

\* C5 witness: a verify submitted the code that a resend had replaced by a
\* different one, before that earlier code expired, and was answered 400.
C5_Witness ==
  /\ last.op = "verify"
  /\ last.superseded
  /\ last.status = 400

\* C6: for every issued code at most one verify ever succeeds with it.
C6_CodeSingleUse == twice = {}

\* C7: when the link branch saves on an Account created by the local
\* provider and no Account has the asserted providerId, then afterwards
\* that same Account has the asserted providerId and isEmailVerified = true,
\* and no second Account with that email was created.
C7_LinkSetsProviderAndVerifies ==
  [][\A p \in Procs :
       ( /\ req[p].pc = "G_save" /\ req'[p].pc = "idle"
         /\ users[req[p].id].regPw # << >>
         /\ FindByGoogleId(users, req[p].sub) = 0 )
       => /\ users'[req[p].id].googleId = req[p].sub
          /\ users'[req[p].id].isEmailVerified
          /\ users'[req[p].id].email = Normalize(req[p].email)
          /\ AccountsWith(users', req[p].email) = {req[p].id}
          /\ Len(users') = Len(users)
          /\ last'.status = 302]_vars

\* C7 witness: a callback has linked an Account of the local provider that
\* was unverified (its code is still stored).
C7_Witness ==
  /\ last.op = "google" /\ last.status = 302
  /\ last.id # 0
  /\ users[last.id].regPw # << >>
  /\ users[last.id].emailVerificationToken # ""
  /\ users[last.id].googleId = last.sub
  /\ users[last.id].isEmailVerified

\* C8: an Account of the local provider that a callback has linked is
\* verified, keeps authProvider local and its password hash, and login with
\* its email and its registration password answers 200.
C8_LoginAfterLink ==
  \A i \in Ids(users) :
    (users[i].regPw # << >> /\ users[i].googleId # "")
    => /\ users[i].authProvider = "email"
       /\ users[i].isEmailVerified
       /\ users[i].password = Hash(users[i].regPw)
       /\ LoginStatus(users, users[i].email, users[i].regPw) = 200

\* C8 witness: a login with the registration password was answered 200 with
\* a token on an Account that was linked while its verification was pending
\* (its code is still stored).
C8_Witness ==
  /\ last.op = "login" /\ last.status = 200
  /\ last.token # NoCookie
  /\ users[last.id].googleId # ""
  /\ users[last.id].emailVerificationToken # ""
  /\ last.passwordMatched

\* C9: in every reachable state at most one Account has any given providerId.
C9_OneAccountPerProviderId ==
  \A i, j \in Ids(users) :
    (users[i].googleId # "" /\ users[i].googleId = users[j].googleId) => i = j

\* C9 witness: a callback failed on the providerId alone: another Account,
\* with another email, holds the subject id it asserted.
C9_Witness ==
  /\ last.op = "google" /\ last.err = "DuplicateKey"
  /\ \E i \in Ids(users) : /\ users[i].googleId = last.sub
                           /\ users[i].email # Normalize(last.email)

\* C10: the protected handler runs exactly when the cookie carries a
\* correctly signed, unexpired token whose id resolves to an Account; every
\* other request is answered 401 and the handler does not run.
C10_ProtectedOnlyWhenAuthorized ==
  last.op \in Routes
  => /\ last.handlerRan <=> last.specOK
     /\ last.handlerRan => last.status = 200
     /\ ~last.specOK => last.status = 401

\* C10 witness: a token the server issued for an Account of the store was
\* rejected with 401 once it had expired.
C10_Witness ==
  /\ last.op \in Routes /\ last.status = 401 /\ ~last.handlerRan
  /\ last.cookie \in issued
  /\ last.cookie.id \in Ids(users)
  /\ last.cookie.exp <= now

\* C11: a token just issued for an Account carries the 1-day expiry and
\* verifies to exactly that Account's id; every issued token verifies to its
\* id while it is unexpired, fails once now >= exp, and fails when it is
\* signed with another secret.
C11_TokenRoundTrip ==
  /\ [](\A tok \in issued :
          /\ now < tok.exp => JwtPayloadId(tok, JWT_SECRET, now) = tok.id
          /\ now >= tok.exp => JwtPayloadId(tok, JWT_SECRET, now) = 0
          /\ JwtPayloadId([tok EXCEPT !.secret = "other"], JWT_SECRET, now) = 0)
  /\ [][\A tok \in issued' \ issued :
          /\ tok = last'.token
          /\ tok.exp = now' + TokenTTL
          /\ tok.id # 0
          /\ JwtPayloadId(tok, JWT_SECRET, now') = last'.id]_vars

\* C11 witness: an unexpired token of an Account of the store, signed with
\* another secret, was presented and rejected, and the token the server
\* issued for that id is accepted at the same instant.
C11_Witness ==
  /\ last.op \in Routes /\ last.status = 401
  /\ last.cookie.secret = "other"
  /\ [last.cookie EXCEPT !.secret = JWT_SECRET] \in issued
  /\ last.cookie.id \in Ids(users)
  /\ now < last.cookie.exp
  /\ JwtPayloadId([last.cookie EXCEPT !.secret = JWT_SECRET], JWT_SECRET, now)
       = last.cookie.id

\* C12: the create of a register adds exactly one Account, with the
\* normalized email of the request, authProvider local and isEmailVerified
\* false, and changes no other Account; when register answers 201 that
\* Account stores a 6-character code, the very code of the mail dispatched
\* before the answer, with an expiry 10 minutes after the request.
C12_RegisterCreatesPending ==
  [][\A p \in Procs :
       /\ (req[p].pc = "R_create" /\ req'[p].pc = "R_save")
          => /\ Len(users') = Len(users) + 1
             /\ \A i \in Ids(users) : users'[i] = users[i]
             /\ req'[p].id = Len(users')
             /\ users'[Len(users')].email = Normalize(req[p].email)
             /\ users'[Len(users')].authProvider = "email"
             /\ ~users'[Len(users')].isEmailVerified
       /\ (req[p].pc = "R_save" /\ req'[p].pc = "idle" /\ last'.status = 201)
          => /\ Len(users') = Len(users)
             /\ users'[req[p].id].emailVerificationToken = last'.mailed
             /\ Len(last'.mailed) = 6
             /\ users'[req[p].id].emailVerificationTokenExpires = now' + CodeTTL
             /\ users'[req[p].id].authProvider = "email"]_vars

\* C12 witness: register answered 201 and the Account it created is
\* unverified and stores the mailed code, which expires in 10 minutes.
C12_Witness ==
  /\ last.op = "register" /\ last.status = 201
  /\ last.id \in Ids(users)
  /\ users[last.id].email = last.email
  /\ users[last.id].authProvider = "email"
  /\ ~users[last.id].isEmailVerified
  /\ last.mailed # ""
  /\ users[last.id].emailVerificationToken = last.mailed
  /\ users[last.id].emailVerificationTokenExpires = now + CodeTTL

\* C13: a register whose email was used by an Account when the handler
\* looked it up, or whose body fails validation (the required name is
\* missing), is answered 400; 201 is answered only when the request was
\* valid, its email unused and an Account with that email exists.
C13_RegisterRejectsWith400 ==
  last.op = "register"
  => /\ ~last.specOK => last.status = 400
     /\ last.status = 201 => (last.specOK /\ AccountsWith(users, last.email) # {})

\* C14: a login that fails because no local Account has the email, the
\* Account has no password hash or the password does not match the hash is
\* answered with InvalidCredentials; EmailNotVerified is answered only when
\* the Account exists, the password matches and isEmailVerified is false.
C14_LoginErrorKinds ==
  (last.op = "login" /\ last.status # 200)
  => /\ (last.id = 0 \/ ~last.passwordMatched) => last.err = "Invalid credentials."
     /\ last.err = "Please verify your email first."
          => (last.id # 0 /\ last.passwordMatched /\ ~last.specOK)

\* C15: in every reachable state an Account with isEmailVerified = true
\* stores neither a verification code nor a code expiry.
C15_NoCodeOnceVerified ==
  \A i \in Ids(users) :
    users[i].isEmailVerified
    => /\ users[i].emailVerificationToken = ""
       /\ users[i].emailVerificationTokenExpires = 0

\* C16: resend goes on to store a code and to send a mail only when, at
\* its lookup, an Account with that email was local and unverified; for an
\* unknown email, a verified Account or an Account created by the federated
\* provider it answers the same 400, changes nothing in the store and sends
\* no mail.
C16_ResendOnlyLocalUnverified ==
  /\ [](/\ \A p \in Procs : req[p].pc = "S_save" => req[p].specOK
        /\ last.op = "resend"
             => /\ last.status = 200 => last.specOK
                /\ last.mailed # "" => last.specOK
                /\ ~last.specOK => (last.status = 400 /\ last.err = ""))
  /\ [][(reqCount' # reqCount /\ last'.op = "resend" /\ req' = req)
         => (last'.status = 400 /\ users' = users /\ nextIss' = nextIss)]_vars

\* C16 witness: resend was answered 400, without a mail, for the email of
\* an Account that the federated provider created.
C16_Witness ==
  /\ last.op = "resend" /\ last.status = 400 /\ last.mailed = ""
  /\ \E i \in Ids(users) : /\ users[i].email = last.email
                           /\ users[i].authProvider = "google"

\* C17: a federated callback that ends on an error of the store issues no
\* token, sets no cookie and redirects the client to the login route.
C17_StoreErrorRedirectsToLogin ==
  (last.op = "google" /\ last.err # "")
  => /\ last.token = NoCookie
     /\ last.status = 302
     /\ last.location = "login"

\* C18: a logout step changes nothing on the server (no Account, no issued
\* token) and answers by clearing the cookie; every token the server issued
\* is, as before the logout and at every instant before its expiry, accepted
\* by the Request Authenticator and resolves to the Account it was issued
\* for.
C18_LogoutRevokesNothing ==
  /\ [][(last'.op = "logout" /\ reqCount' # reqCount /\ req' = req)
         => /\ users' = users
            /\ issued' = issued
            /\ last'.token = ClearedCookie
            /\ \A tok \in issued :
                 Authenticate(users', tok, now') = Authenticate(users, tok, now)]_vars
  /\ [](\A tok \in issued : now < tok.exp => Authenticate(users, tok, now) = tok.id)

\* C18 witness: a logout was answered for a request that carried a token
\* the server had issued; the token is unexpired and the Request
\* Authenticator still resolves it to its Account.
C18_Witness ==
  /\ last.op = "logout" /\ last.status = 200
  /\ last.token = ClearedCookie
  /\ last.cookie \in issued
  /\ now < last.cookie.exp
  /\ Authenticate(users, last.cookie, now) = last.cookie.id
  /\ Authorized(users, last.cookie, now)

\* C19: no response of an auth endpoint (register, verify-email,
\* resend-verification, login, profile, logout, google callback) has the
\* password hash, the verification code or the code expiry among the keys
\* of its body; apart from a message, a body carries only id, name, email
\* and photoURL, and the bodies of successful verify, login and profile
\* requests carry exactly those.
C19_NoSecretInResponses ==
  last.op \in {"register", "verify", "resend", "login", "profile", "logout", "google"}
  => /\ last.body \cap HiddenPaths = {}
     /\ (last.body \ {"message"}) \subseteq {"id", "name", "email", "photoURL"}
     /\ (last.op \in {"verify", "login", "profile"} /\ last.status = 200)
          => last.body = {"id", "name", "email", "photoURL"}

\* C19 witness: a login, whose lookup loads the password hash with the
\* document, was answered 200 for an Account that stores a hash, with a
\* body of id, name, email and photoURL.
C19_Witness ==
  /\ last.op = "login" /\ last.status = 200
  /\ users[last.id].password # << >>
  /\ "password" \in Selected({"password"})
  /\ last.body = {"id", "name", "email", "photoURL"}

\* An Account with this email is Pending-Verification
PendingAt(us, email) ==
  \E i \in Ids(us) : /\ us[i].email = Normalize(email)
                     /\ us[i].authProvider = "email"
                     /\ ~us[i].isEmailVerified

\* C20: a verify and a resend in flight never block: the save of each is
\* always possible.  A verify that reads a Pending-Verification Account goes
\* on to succeed exactly when the code it submitted equals the code stored
\* at that moment and that code is unexpired; otherwise it is answered 400
\* at once and changes nothing, so that the caller can retry.  Once it has
\* read a match its save answers 200 with a token, whatever a resend saved
\* in between.
C20_ResendVerifyRace ==
  /\ [](\A p \in Procs :
          /\ req[p].pc = "V_save" => ENABLED VerifySave(p)
          /\ req[p].pc = "S_save" => ENABLED ResendSave(p, TRUE))
  /\ [][\A p \in Procs :
          /\ \A e \in LocalEmails, c \in Codes :
               (VerifyEmail(p, e, c) /\ PendingAt(users, e))
               => IF \E i \in Ids(users) :
                       /\ users[i].email = Normalize(e)
                       /\ users[i].emailVerificationToken = c
                       /\ now < users[i].emailVerificationTokenExpires
                  THEN req'[p].pc = "V_save" /\ last' = last
                  ELSE /\ last'.op = "verify" /\ last'.status = 400
                       /\ last'.token = NoCookie
                       /\ req' = req /\ users' = users
          /\ (req[p].pc = "V_save" /\ VerifySave(p))
               => /\ last'.op = "verify" /\ last'.status = 200
                  /\ last'.token \in issued'
                  /\ users'[req[p].id].isEmailVerified]_vars

\* C20 witness: a verify succeeded on an Account for which a resend that
\* has read the Account has not saved its new code yet.
C20_Witness ==
  /\ last.op = "verify" /\ last.status = 200
  /\ \E q \in Procs : /\ req[q].pc = "S_save"
                       /\ req[q].id = last.id
                       /\ req[q].specOK

\* C21: a callback whose asserted providerId belongs to an Account is
\* answered at once as that Account and changes no Account and starts no
\* further lookup, whoever holds the asserted email; the email lookup is
\* made only after the providerId lookup found nothing, the link save only
\* after the email lookup found an Account, and an Account is created by a
\* callback only after both lookups found nothing.
C21_FederatedResolutionOrder ==
  [][\A p \in Procs :
       /\ \A g \in GoogleIds, e \in GoogleEmails :
            GoogleCallback(p, g, e)
            => IF \E i \in Ids(users) : users[i].googleId = g
               THEN /\ users' = users /\ req' = req
                    /\ last'.op = "google" /\ last'.status = 302
                    /\ last'.id \in Ids(users)
                    /\ users[last'.id].googleId = g
                    /\ last'.token.id = last'.id
               ELSE req'[p].pc = "G_email" /\ users' = users /\ last' = last
       /\ GoogleFindEmail(p)
            => /\ users' = users
               /\ req'[p].pc = "G_save"
                    <=> \E i \in Ids(users) : users[i].email = Normalize(req[p].email)
               /\ req'[p].pc = "G_create"
                    <=> ~\E i \in Ids(users) : users[i].email = Normalize(req[p].email)
       /\ (req[p].op = "google" /\ req'[p].pc = "idle" /\ Len(users') # Len(users))
            => req[p].pc = "G_create"
       /\ (req[p].op = "google" /\ req'[p].pc = "idle" /\ users' # users
              /\ Len(users') = Len(users))
            => req[p].pc = "G_save"]_vars

\* C21 witness: a callback was answered as the Account that has the
\* asserted providerId while a different Account holds the asserted email,
\* and that other Account has no providerId.
C21_Witness ==
  /\ last.op = "google" /\ last.status = 302
  /\ last.id \in Ids(users)
  /\ users[last.id].googleId = last.sub
  /\ users[last.id].email # last.email
  /\ \E j \in Ids(users) : /\ j # last.id
                           /\ users[j].email = last.email
                           /\ users[j].googleId = ""

\* What a client sees of a response
Observable(r) == <<r.status, r.err, r.token, r.body, r.location, r.mailed>>

\* C22: every verify that finds no match for an existing Account, because
\* the submitted code is not the stored one or because the stored code has
\* expired, is answered with one and the same status, message, body and
\* cookies, and leaves the store unchanged.
C22_VerifyFailureUniform ==
  [][\A p \in Procs, e \in LocalEmails, c \in Codes :
       ( /\ VerifyEmail(p, e, c)
         /\ \E i \in Ids(users) :
              /\ users[i].email = Normalize(e)
              /\ \/ users[i].emailVerificationToken # c
                 \/ users[i].emailVerificationTokenExpires <= now )
       => /\ Observable(last')
              = <<400, "Invalid or expired OTP.", NoCookie, MessageBody, "", "">>
          /\ req' = req
          /\ users' = users]_vars

\* C22 witness: a verify that submitted the stored code after its expiry
\* was answered 400 "Invalid or expired OTP.", and the Account still
\* stores that code.
C22_Witness ==
  /\ last.op = "verify" /\ last.expired
  /\ last.status = 400 /\ last.err = "Invalid or expired OTP."
  /\ \E i \in Ids(users) : /\ users[i].email = last.email
                           /\ users[i].emailVerificationToken # ""
                           /\ users[i].emailVerificationTokenExpires <= now

\* C23: when the mail dispatch of register or of resend fails, the step
\* that answers has saved the code and its expiry on the Account, removes
\* no Account, and answers 500 (a 5xx, not the 400 of a conflict) without a
\* mail; the Account of such a response exists in every later state.
C23_MailFailureKeepsState ==
  /\ [][\A p \in Procs :
          ( /\ req[p].pc \in {"R_save", "S_save"} /\ req'[p].pc = "idle"
            /\ last'.err = "MailFailure" )
          => /\ last'.status = 500
             /\ last'.mailed = ""
             /\ Len(users') = Len(users)
             /\ users'[req[p].id].emailVerificationToken = req[p].code
             /\ users'[req[p].id].emailVerificationTokenExpires = req[p].expires
             /\ users'[req[p].id].email = Normalize(req[p].email)]_vars
  /\ [](last.err = "MailFailure"
         => /\ last.status \in 500..599
            /\ last.id \in Ids(users)
            /\ users[last.id].email = last.email)

\* C23 witness: register was answered 500 after its mail dispatch failed,
\* and the Account it created is in the store, unverified, with a code and
\* an expiry.
C23_Witness ==
  /\ last.op = "register" /\ last.err = "MailFailure" /\ last.status = 500
  /\ last.id \in Ids(users)
  /\ users[last.id].email = last.email
  /\ ~users[last.id].isEmailVerified
  /\ users[last.id].emailVerificationToken # ""
  /\ users[last.id].emailVerificationTokenExpires = now + CodeTTL

\* C24: a protected request without a session cookie is answered 401 and
\* its handler does not run, whatever token its Authorization header
\* carries.
C24_TokenOnlyFromCookie ==
  (last.op \in Routes /\ last.cookie = NoCookie)
  => (last.status = 401 /\ ~last.handlerRan)

\* C24 witness: a protected request with no cookie and, in its header, an
\* unexpired token that the server issued for an Account of the store was
\* answered 401.
C24_Witness ==
  /\ last.op \in Routes /\ last.cookie = NoCookie
  /\ last.header \in issued
  /\ now < last.header.exp
  /\ Authorized(users, last.header, now)
  /\ last.status = 401 /\ ~last.handlerRan

\* C25: a login with the email of an Account that the federated provider
\* created matches no Account in its lookup, is answered 401 with
\* InvalidCredentials and sets no token, whatever the password.
C25_LoginRequiresLocalProvider ==
  ( /\ last.op = "login"
    /\ \E i \in Ids(users) : /\ users[i].email = last.email
                             /\ users[i].authProvider = "google" )
  => /\ last.id = 0
     /\ last.status = 401
     /\ last.err = "Invalid credentials."
     /\ last.token = NoCookie

\* C25 witness: a login with the email of an Account created by a callback
\* was answered 401 "Invalid credentials."
C25_Witness ==
  /\ last.op = "login" /\ last.status = 401
  /\ last.err = "Invalid credentials."
  /\ \E i \in Ids(users) : /\ users[i].email = last.email
                           /\ users[i].authProvider = "google"
                           /\ users[i].googleId # ""
                           /\ users[i].password = << >>

\* C26: whenever the server issues a token (verify, login or callback),
\* the token carries the id of an Account that is in the store and has
\* isEmailVerified = true in the state the token is issued in.
C26_TokensOnlyForVerified ==
  [][\A tok \in issued' \ issued :
       /\ tok.id \in Ids(users')
       /\ users'[tok.id].isEmailVerified
       /\ last'.op \in {"verify", "login", "google"}
       /\ last'.token = tok]_vars

\* C26 witness: verify has just issued a token for the Account it
\* verified.
C26_Witness ==
  /\ last.op = "verify" /\ last.status = 200
  /\ last.token \in issued
  /\ last.token.id = last.id
  /\ last.token.exp = now + TokenTTL
  /\ users[last.id].isEmailVerified

\* C27: no step changes the providerId of an Account that has one.
C27_ProviderIdNeverOverwritten ==
  [][\A i \in Ids(users) :
       users[i].googleId # "" => users'[i].googleId = users[i].googleId]_vars

\* C28: in every reachable state every Account of the local provider with
\* isEmailVerified = false stores a verification code and an expiry.
C28_PendingAccountHasCode ==
  \A i \in Ids(users) :
    (users[i].authProvider = "email" /\ ~users[i].isEmailVerified)
    => /\ users[i].emailVerificationToken # ""
       /\ users[i].emailVerificationTokenExpires # 0

\* C29: no step sets isEmailVerified of an Account back from true to
\* false.
C29_VerifiedIsMonotone ==
  [][\A i \in Ids(users) :
       users[i].isEmailVerified
       => (i \in Ids(users') /\ users'[i].isEmailVerified)]_vars

\* C29 witness: a resend that had read the Account while it was unverified
\* saved its code after the Account was verified, and the Account is still
\* verified.
C29_Witness ==
  /\ last.op = "resend" /\ last.status = 200 /\ last.specOK
  /\ last.id \in Ids(users)
  /\ users[last.id].isEmailVerified
  /\ users[last.id].emailVerificationToken = last.mailed

\* C30: every profile in the store has the userId of the Account whose
\* request created it, and every answer of an AI handler was made from
\* records whose userId is the authenticated Account's id, whatever userId
\* the path or the body of the request carried.
C30_AiRecordsOwnedByCaller ==
  /\ \A pr \in profiles : pr.userId = pr.creator
  /\ last.op \in {"getFinancialProfile", "updateFinancialProfile", "getAgentOutputs"}
       => last.touched \in {0, last.id}

====
